---- MODULE Spec2Model ----
(***************************************************************************)
(* A model of the gremgo connection pool (pool.go): Pool.Get, its purge    *)
(* pass, the wait on the condition variable, the dial outside the lock,    *)
(* and PooledConnection.Close, run by several goroutines.                  *)
(***************************************************************************)
EXTENDS Integers, Sequences, FiniteSets, Bags, TLC

\* ------------------------------------------------------------------ bounds
NumCallers == 3        \* goroutines using the pool
MaxHandles == 3        \* handles Get may return, counting the Get calls under way
MaxTime == 2           \* clock ticks
MaxExtraCloses == 1    \* Close calls on an already closed handle
NumGets == 3           \* Get calls of a finite workload

Callers == 1..NumCallers
MaxActiveChoices == {0, 1, 2}
IdleTimeoutChoices == {0, 1}
NoExpiryChoices == {-1, 0}     \* IdleTimeout values that switch expiry off
Unbounded == -1                \* toGet of a workload that never stops calling Get

\* ------------------------------------------------------------------- state
VARIABLES
  MaxActive,     \* Pool.MaxActive
  IdleTimeout,   \* Pool.IdleTimeout, in clock ticks
  mutex,         \* Pool.mutex: 0 when free, else the goroutine holding it
  idle,          \* Pool.idle: sequence of [client, t], front first
  Active,        \* Pool.Active
  cond,          \* Pool.cond # nil
  pc,            \* where each goroutine is
  closing,       \* the handle each goroutine is closing (NoHandle: none)
  handles,       \* the PooledConnection values Get has returned: a bag of
                 \* [client, closes], closes the number of Close calls made on it
  nClients,      \* Clients dialed so far; they are 1..nClients
  errored,       \* Clients whose Errored flag is set
  closedClients, \* Clients on which Client.Close() was called
  now,           \* time.Now()
  toGet,         \* Get calls the goroutines have still to make (Unbounded: no limit)
  dials,         \* history: dial() calls the goroutine's current Get has made
  blocked,       \* history: the goroutine's current Get has been in cond.Wait
  follows,       \* history: the Client whose Close immediately preceded this Get and
                 \* whose idle time had not run out when the Get began (0: none)
  sole,          \* history: the Client of the only outstanding handle when this Get
                 \* began, while no other Get has begun since (0: none)
  lastOp,        \* history: the Client of the last Close, while nobody has taken the
                 \* lock since (0: none)
  lastPut,       \* history: the Client of the most recent put (0: none)
  lastPurge,     \* history: what the purge pass just run dropped and closed
  lastRet,       \* history: what the Get that just returned returned
  extraCloses    \* history: Close calls made on an already closed handle

vars == <<MaxActive, IdleTimeout, mutex, idle, Active, cond, pc, closing, handles,
          nClients, errored, closedClients, now, toGet, dials, blocked, follows, sole,
          lastOp, lastPut, lastPurge, lastRet, extraCloses>>

config == <<MaxActive, IdleTimeout>>

NoRet == [via |-> "none", caller |-> 0, client |-> 0, t |-> 0, at |-> 0,
          err |-> FALSE, blocked |-> FALSE, follows |-> 0, sole |-> 0,
          active |-> 0]
NoHandle == [client |-> 0, closes |-> 0]
NoPurge == [by |-> 0, ran |-> FALSE, before |-> <<>>, after |-> <<>>, closed |-> {}]

\* a step that is neither a purge pass nor a return of Get leaves no event record
NoEvent == lastPurge' = NoPurge /\ lastRet' = NoRet

\* the pool as constructed, its IdleTimeout one of T, used for G calls of Get
InitPool(T, G) ==
  /\ MaxActive \in MaxActiveChoices
  /\ IdleTimeout \in T
  /\ mutex = 0
  /\ idle = <<>>
  /\ Active = 0
  /\ cond = FALSE
  /\ pc = [c \in Callers |-> "idle"]
  /\ closing = [c \in Callers |-> NoHandle]
  /\ handles = EmptyBag
  /\ nClients = 0
  /\ errored = {}
  /\ closedClients = {}
  /\ now = 0
  /\ toGet = G
  /\ dials = [c \in Callers |-> 0]
  /\ blocked = [c \in Callers |-> FALSE]
  /\ follows = [c \in Callers |-> 0]
  /\ sole = [c \in Callers |-> 0]
  /\ lastOp = 0
  /\ lastPut = 0
  /\ lastPurge = NoPurge
  /\ lastRet = NoRet
  /\ extraCloses = 0

Init == InitPool(IdleTimeoutChoices, Unbounded)

\* pools whose idle connections never expire
InitNoExpiry == InitPool(NoExpiryChoices, Unbounded)

\* a pool with a capacity limit, used by NumGets calls of Get, each followed by
\* one Close of the handle it returned
InitFinite == InitPool(IdleTimeoutChoices, NumGets) /\ MaxActive > 0

\* --------------------------------------------------------------- helpers
InGet(c) == pc[c] \in {"purge", "loop", "dial", "dialerr", "rollback", "parked", "signalled"}
Parked == {c \in Callers : pc[c] = "parked"}
Handles == BagToSet(handles)
Handle(k) == [client |-> k, closes |-> 0]
Outstanding == {h \in Handles : h.closes = 0}
NumOutstanding == BagCardinality([h \in Outstanding |-> handles[h]])
Dialing == {c \in Callers : pc[c] \in {"dial", "dialerr", "rollback"}}
NumDialing == Cardinality(Dialing)
Copies(k) == CopiesIn(Handle(k), handles)
IdleClients == {idle[i].client : i \in 1..Len(idle)}
Held == {h.client : h \in Outstanding}

\* first(): the front idle entry, or nil (here <<>> stands for nil)
first == IF Len(idle) = 0 THEN <<>> ELSE <<idle[1]>>

\* The test purge applies to an idle entry v at time n: keep it.
Keeps(v, n) == v.client \notin errored /\ v.t + IdleTimeout > n

\* An idle entry whose idle time has run out at time n.
Expired(v, n) == IdleTimeout > 0 /\ ~(v.t + IdleTimeout > n)

\* Which entries purge closes: those it drops for having expired.
PurgeCloses(v, n) == v.client \notin errored /\ ~(v.t + IdleTimeout > n)

\* purge without the test of IdleTimeout
purgeAlways(l, n) == SelectSeq(l, LAMBDA v : Keeps(v, n))

\* purge(): the idle list it leaves
purge(l, n) == IF IdleTimeout > 0 THEN SelectSeq(l, LAMBDA v : Keeps(v, n)) ELSE l

\* purge(): the Clients it closes
purgeClosed(l, n) ==
  IF IdleTimeout > 0
  THEN {l[i].client : i \in {j \in 1..Len(l) : PurgeCloses(l[j], n)}}
  ELSE {}

\* put with the entry appended at the back instead of prepended
putAtBack(k) == idle \o <<[client |-> k, t |-> now]>>

\* put(pc): the idle list after prepending the handle's Client, idled now
put(k) == <<[client |-> k, t |-> now]>> \o idle

\* a Signal that wakes nobody
SignalNobody(P) == {P}

\* cond.Signal(): the pc after one parked goroutine, if any, is made runnable
Signal(P) ==
  IF Parked # {}
  THEN {[P EXCEPT ![w] = "signalled"] : w \in Parked}
  ELSE {P}

\* release without the Signal
releaseNoSignal(P) ==
  /\ Active' = Active - 1
  /\ pc' = P

\* release without the decrement
releaseNoDecrement(P) ==
  /\ Active' = Active
  /\ pc' \in (IF cond THEN Signal(P) ELSE {P})

\* release(): Active--, then Signal when cond is set; P is the caller's next pc
release(P) ==
  /\ Active' = Active - 1
  /\ pc' \in (IF cond THEN Signal(P) ELSE {P})

\* ------------------------------------------------------------------- Get
\* p.mutex.Lock() at the start of Get. Goroutines that are not inside a call are
\* interchangeable, so the lowest-numbered one makes the next call.
GetLock(c) ==
  /\ pc[c] = "idle"
  /\ mutex = 0
  /\ BagCardinality(handles) + Cardinality({d \in Callers : InGet(d)}) < MaxHandles
  /\ \A d \in Callers : d < c => pc[d] # "idle"
  /\ mutex' = c
  /\ pc' = [pc EXCEPT ![c] = "purge"]
  /\ blocked' = [blocked EXCEPT ![c] = FALSE]
  /\ follows' = [follows EXCEPT ![c] = IF lastOp # 0 /\ ~Expired(idle[1], now) THEN lastOp ELSE 0]
  /\ sole' = [d \in Callers |-> IF d = c /\ Active = 1 /\ Cardinality(Held) = 1 /\ NumOutstanding = 1
                                 THEN CHOOSE k \in Held : TRUE ELSE 0]
  /\ lastOp' = 0
  /\ NoEvent
  /\ UNCHANGED <<config, idle, Active, cond, closing, handles, nClients, errored,
                 closedClients, now, lastPut, extraCloses>>
  /\ toGet # 0
  /\ toGet' = IF toGet = Unbounded THEN Unbounded ELSE toGet - 1
  /\ dials' = [dials EXCEPT ![c] = 0]

\* p.purge()
GetPurge(c) ==
  /\ pc[c] = "purge"
  /\ idle' = purge(idle, now)
  /\ closedClients' = closedClients \cup purgeClosed(idle, now)
  /\ lastPurge' = [by |-> c, ran |-> TRUE, before |-> idle, after |-> idle',
                   closed |-> purgeClosed(idle, now)]
  /\ pc' = [pc EXCEPT ![c] = "loop"]
  /\ UNCHANGED <<config, mutex, Active, cond, closing, handles, nClients, errored,
                 now, blocked, follows, sole, lastOp, lastPut, extraCloses>>
  /\ lastRet' = NoRet
  /\ UNCHANGED <<toGet, dials>>

\* the record of a Get that returns
Ret(c, via, k, t, a) ==
  [via |-> via, caller |-> c, client |-> k, t |-> t, at |-> now,
   err |-> (k \in errored), blocked |-> blocked[c], follows |-> follows[c],
   sole |-> sole[c], active |-> a]

\* the loop's first branch: take the front idle connection and return it
GetIdle(c) ==
  /\ pc[c] = "loop"
  /\ first # <<>>
  /\ idle' = Tail(idle)
  /\ Active' = Active + 1
  /\ mutex' = 0
  /\ handles' = handles (+) SetToBag({Handle(first[1].client)})
  /\ pc' = [pc EXCEPT ![c] = "idle"]
  /\ lastRet' = Ret(c, "idle", first[1].client, first[1].t, Active + 1)
  /\ blocked' = [blocked EXCEPT ![c] = FALSE]
  /\ follows' = [follows EXCEPT ![c] = 0]
  /\ sole' = [sole EXCEPT ![c] = 0]
  /\ UNCHANGED <<config, cond, closing, nClients, errored, closedClients, now,
                 lastOp, lastPut, extraCloses>>
  /\ lastPurge' = NoPurge
  /\ UNCHANGED <<toGet, dials>>

\* the capacity test with <= for <
HasCapacityOffByOne == MaxActive = 0 \/ Active <= MaxActive

\* the capacity test left out
HasCapacityAlways == TRUE

\* the capacity test without the case MaxActive = 0
HasCapacityNoUnlimited == Active < MaxActive

\* the test guarding the dial branch
HasCapacity == MaxActive = 0 \/ Active < MaxActive

\* the dial branch taken without looking at the idle list
GetDialIgnoresIdle(c) ==
  /\ pc[c] = "loop"
  /\ HasCapacity
  /\ Active' = Active + 1
  /\ mutex' = 0
  /\ pc' = [pc EXCEPT ![c] = "dial"]
  /\ NoEvent
  /\ UNCHANGED <<config, idle, cond, closing, handles, nClients, errored,
                 closedClients, now, blocked, follows, sole, lastOp, lastPut, extraCloses>>
  /\ dials' = [dials EXCEPT ![c] = @ + 1]
  /\ UNCHANGED toGet

\* the dial branch without the Unlock: the dial is made inside the critical section
GetDialKeepsLock(c) ==
  /\ pc[c] = "loop"
  /\ first = <<>>
  /\ HasCapacity
  /\ Active' = Active + 1
  /\ mutex' = mutex
  /\ pc' = [pc EXCEPT ![c] = "dial"]
  /\ NoEvent
  /\ UNCHANGED <<config, idle, cond, closing, handles, nClients, errored,
                 closedClients, now, blocked, follows, sole, lastOp, lastPut, extraCloses>>
  /\ dials' = [dials EXCEPT ![c] = @ + 1]
  /\ UNCHANGED toGet

\* the loop's second branch: count the dial, unlock, and go dial
GetDial(c) ==
  /\ pc[c] = "loop"
  /\ first = <<>>
  /\ HasCapacity
  /\ Active' = Active + 1
  /\ mutex' = 0
  /\ pc' = [pc EXCEPT ![c] = "dial"]
  /\ NoEvent
  /\ UNCHANGED <<config, idle, cond, closing, handles, nClients, errored,
                 closedClients, now, blocked, follows, sole, lastOp, lastPut, extraCloses>>
  /\ dials' = [dials EXCEPT ![c] = @ + 1]
  /\ UNCHANGED toGet

\* the wait without the creation of cond
GetWaitNoCond(c) ==
  /\ pc[c] = "loop"
  /\ first = <<>>
  /\ ~HasCapacity
  /\ cond' = cond
  /\ mutex' = 0
  /\ pc' = [pc EXCEPT ![c] = "parked"]
  /\ blocked' = [blocked EXCEPT ![c] = TRUE]
  /\ NoEvent
  /\ UNCHANGED <<config, idle, Active, closing, handles, nClients, errored,
                 closedClients, now, follows, sole, lastOp, lastPut, extraCloses>>
  /\ UNCHANGED <<toGet, dials>>

\* the loop's last branch: create cond if needed and Wait (unlock and park)
GetWait(c) ==
  /\ pc[c] = "loop"
  /\ first = <<>>
  /\ ~HasCapacity
  /\ cond' = TRUE
  /\ mutex' = 0
  /\ pc' = [pc EXCEPT ![c] = "parked"]
  /\ blocked' = [blocked EXCEPT ![c] = TRUE]
  /\ NoEvent
  /\ UNCHANGED <<config, idle, Active, closing, handles, nClients, errored,
                 closedClients, now, follows, sole, lastOp, lastPut, extraCloses>>
  /\ UNCHANGED <<toGet, dials>>

\* the woken goroutine treating the freed slot as its own: it dials without
\* going round the loop again
GetWakeOwnsSlot(c) ==
  /\ pc[c] = "signalled"
  /\ mutex = 0
  /\ Active' = Active + 1
  /\ pc' = [pc EXCEPT ![c] = "dial"]
  /\ dials' = [dials EXCEPT ![c] = @ + 1]
  /\ lastOp' = 0
  /\ NoEvent
  /\ UNCHANGED <<config, mutex, idle, cond, closing, handles, nClients, errored,
                 closedClients, now, toGet, blocked, follows, sole, lastPut, extraCloses>>

\* cond.Wait() returning: the signalled goroutine takes the lock again and loops
GetWake(c) ==
  /\ pc[c] = "signalled"
  /\ mutex = 0
  /\ mutex' = c
  /\ pc' = [pc EXCEPT ![c] = "loop"]
  /\ lastOp' = 0
  /\ NoEvent
  /\ UNCHANGED <<config, idle, Active, cond, closing, handles, nClients, errored,
                 closedClients, now, blocked, follows, sole, lastPut, extraCloses>>
  /\ UNCHANGED <<toGet, dials>>

\* dial() succeeded: Get returns a handle on the new Client
DialOk(c) ==
  /\ pc[c] = "dial"
  /\ nClients' = nClients + 1
  /\ handles' = handles (+) SetToBag({Handle(nClients + 1)})
  /\ pc' = [pc EXCEPT ![c] = "idle"]
  /\ lastRet' = Ret(c, "dial", nClients + 1, now, Active)
  /\ blocked' = [blocked EXCEPT ![c] = FALSE]
  /\ follows' = [follows EXCEPT ![c] = 0]
  /\ sole' = [sole EXCEPT ![c] = 0]
  /\ UNCHANGED <<config, mutex, idle, Active, cond, closing, errored, closedClients,
                 now, lastOp, lastPut, extraCloses>>
  /\ lastPurge' = NoPurge
  /\ dials' = [dials EXCEPT ![c] = 0]
  /\ UNCHANGED toGet

\* dial() failed
DialErr(c) ==
  /\ pc[c] = "dial"
  /\ pc' = [pc EXCEPT ![c] = "dialerr"]
  /\ NoEvent
  /\ UNCHANGED <<config, mutex, idle, Active, cond, closing, handles, nClients,
                 errored, closedClients, now, blocked, follows, sole, lastOp, lastPut,
                 extraCloses>>
  /\ UNCHANGED <<toGet, dials>>

\* p.mutex.Lock() after the failed dial
DialErrLock(c) ==
  /\ pc[c] = "dialerr"
  /\ mutex = 0
  /\ mutex' = c
  /\ pc' = [pc EXCEPT ![c] = "rollback"]
  /\ lastOp' = 0
  /\ NoEvent
  /\ UNCHANGED <<config, idle, Active, cond, closing, handles, nClients, errored,
                 closedClients, now, blocked, follows, sole, lastPut, extraCloses>>
  /\ UNCHANGED <<toGet, dials>>

\* the failed dial followed by another turn of the loop instead of the return
DialErrRetries(c) ==
  /\ pc[c] = "rollback"
  /\ release([pc EXCEPT ![c] = "loop"])
  /\ NoEvent
  /\ UNCHANGED <<config, mutex, idle, cond, closing, handles, nClients, errored,
                 closedClients, now, toGet, dials, blocked, follows, sole, lastOp,
                 lastPut, extraCloses>>

\* p.release(); p.mutex.Unlock(); return nil, err
DialErrRelease(c) ==
  /\ pc[c] = "rollback"
  /\ release([pc EXCEPT ![c] = "idle"])
  /\ mutex' = 0
  /\ lastRet' = Ret(c, "err", 0, now, Active - 1)
  /\ blocked' = [blocked EXCEPT ![c] = FALSE]
  /\ follows' = [follows EXCEPT ![c] = 0]
  /\ sole' = [sole EXCEPT ![c] = 0]
  /\ UNCHANGED <<config, idle, cond, closing, handles, nClients, errored,
                 closedClients, now, lastOp, lastPut, extraCloses>>
  /\ lastPurge' = NoPurge
  /\ dials' = [dials EXCEPT ![c] = 0]
  /\ UNCHANGED toGet

\* ----------------------------------------------------------------- Close
\* pc.Pool.mutex.Lock() at the start of Close, on a handle h that Get has returned
CloseLock(c, h) ==
  /\ pc[c] = "idle"
  /\ \A d \in Callers : d < c => pc[d] # "idle"
  /\ mutex = 0
  /\ h \in Handles
  /\ h.closes = 0 \/ (toGet = Unbounded /\ extraCloses < MaxExtraCloses)
  /\ mutex' = c
  /\ closing' = [closing EXCEPT ![c] = h]
  /\ pc' = [pc EXCEPT ![c] = "closing"]
  /\ lastOp' = 0
  /\ NoEvent
  /\ UNCHANGED <<config, idle, Active, cond, handles, nClients, errored,
                 closedClients, now, blocked, follows, sole, lastPut, extraCloses>>
  /\ UNCHANGED <<toGet, dials>>

\* Close rejecting a handle that was closed before
ClosePutGuarded(c) ==
  /\ pc[c] = "closing"
  /\ IF closing[c].closes = 0
     THEN /\ idle' = put(closing[c].client)
          /\ release([pc EXCEPT ![c] = "idle"])
     ELSE /\ idle' = idle
          /\ Active' = Active
          /\ pc' = [pc EXCEPT ![c] = "idle"]
  /\ mutex' = 0
  /\ handles' = (handles (-) SetToBag({closing[c]}))
                  (+) SetToBag({[closing[c] EXCEPT !.closes = @ + 1]})
  /\ extraCloses' = IF closing[c].closes = 0 THEN extraCloses ELSE extraCloses + 1
  /\ closing' = [closing EXCEPT ![c] = NoHandle]
  /\ lastOp' = closing[c].client
  /\ lastPut' = closing[c].client
  /\ NoEvent
  /\ UNCHANGED <<config, cond, nClients, errored, closedClients, now, blocked, follows, sole>>
  /\ UNCHANGED <<toGet, dials>>

\* pc.Pool.put(pc); pc.Pool.release(); and the deferred Unlock
ClosePut(c) ==
  /\ pc[c] = "closing"
  /\ idle' = put(closing[c].client)
  /\ release([pc EXCEPT ![c] = "idle"])
  /\ mutex' = 0
  /\ handles' = (handles (-) SetToBag({closing[c]}))
                  (+) SetToBag({[closing[c] EXCEPT !.closes = @ + 1]})
  /\ extraCloses' = IF closing[c].closes = 0 THEN extraCloses ELSE extraCloses + 1
  /\ closing' = [closing EXCEPT ![c] = NoHandle]
  /\ lastOp' = closing[c].client
  /\ lastPut' = closing[c].client
  /\ NoEvent
  /\ UNCHANGED <<config, cond, nClients, errored, closedClients, now, blocked, follows, sole>>
  /\ UNCHANGED <<toGet, dials>>

\* ----------------------------------------------------------- environment
\* whoever holds Client k sets its Errored flag
MarkErrored(k) ==
  /\ k \in Held
  /\ k \notin errored
  /\ errored' = errored \cup {k}
  /\ NoEvent
  /\ UNCHANGED <<config, mutex, idle, Active, cond, pc, closing, handles, nClients,
                 closedClients, now, blocked, follows, sole, lastOp, lastPut, extraCloses>>
  /\ UNCHANGED <<toGet, dials>>

\* Time passes. The clock is read once in each of put and purge, both inside a
\* critical section, so a tick during a critical section is the same as one
\* before or after it.
Tick ==
  /\ now < MaxTime
  /\ mutex = 0
  /\ now' = now + 1
  /\ NoEvent
  /\ UNCHANGED <<config, mutex, idle, Active, cond, pc, closing, handles, nClients,
                 errored, closedClients, blocked, follows, sole, lastOp, lastPut, extraCloses>>
  /\ UNCHANGED <<toGet, dials>>

Next ==
  \/ \E c \in Callers : GetLock(c)
  \/ \E c \in Callers : GetPurge(c)
  \/ \E c \in Callers : GetIdle(c)
  \/ \E c \in Callers : GetDial(c)
  \/ \E c \in Callers : GetWait(c)
  \/ \E c \in Callers : GetWake(c)
  \/ \E c \in Callers : DialOk(c)
  \/ \E c \in Callers : DialErr(c)
  \/ \E c \in Callers : DialErrLock(c)
  \/ \E c \in Callers : DialErrRelease(c)
  \/ \E c \in Callers, h \in Handles : CloseLock(c, h)
  \/ \E c \in Callers : ClosePut(c)
  \/ \E k \in 1..nClients : MarkErrored(k)
  \/ Tick

Spec == Init /\ [][Next]_vars

\* the same pool with IdleTimeout <= 0
SpecNoExpiry == InitNoExpiry /\ [][Next]_vars

\* ---------------------------------------------------------------- fairness
\* the steps goroutine c takes on its own once it is inside Get or Close
CallerStep(c) ==
  \/ GetPurge(c) \/ GetIdle(c) \/ GetDial(c) \/ GetWait(c) \/ GetWake(c)
  \/ DialErrLock(c) \/ DialErrRelease(c) \/ ClosePut(c)

\* dial() returning, with a connection or with an error
DialReturns(c) == DialOk(c) \/ DialErr(c)

\* the holder of a handle that is not closed yet calls Close on it
CloseOutstanding == \E c \in Callers, h \in Outstanding : CloseLock(c, h)

\* every goroutine inside a call keeps running, every dial returns, and the
\* handles are closed; nothing makes a goroutine call Get
WeakFairness ==
  /\ \A c \in Callers : WF_vars(CallerStep(c)) /\ WF_vars(DialReturns(c))
  /\ WF_vars(CloseOutstanding)

\* the same with strong fairness: a goroutine that can take the lock again and
\* again does take it
StrongFairness ==
  /\ \A c \in Callers : SF_vars(CallerStep(c)) /\ SF_vars(DialReturns(c))
  /\ SF_vars(CloseOutstanding)

\* the pool used without end, every goroutine scheduled strongly fairly
FairSpec == Init /\ [][Next]_vars /\ StrongFairness

\* the pool used by a finite workload, every goroutine scheduled weakly fairly
FiniteSpec == InitFinite /\ [][Next]_vars /\ WeakFairness

\* ------------------------------------------------------------------ claims
\* C1: with MaxActive = N > 0 and no handle closed twice, the handles returned by
\* Get and not yet closed never number more than N, and Active never exceeds
\* MaxActive.
C1_CapacityBound ==
  (MaxActive > 0 /\ extraCloses = 0) =>
    (NumOutstanding <= MaxActive /\ Active <= MaxActive)

\* C1 witness: the pool is full (MaxActive = 2 handles outstanding) and a further
\* Get is parked in the wait.
C1_Witness ==
  MaxActive = 2 /\ extraCloses = 0 /\ NumOutstanding = 2 /\ Active = 2 /\ Parked # {}

\* C2: whatever IdleTimeout is, and whether or not the Get blocked, a Get that
\* takes an idle connection never returns one whose Errored flag is set (a
\* connection released with Errored set is never handed out again).
C2_NeverReturnsErrored ==
  (extraCloses = 0 /\ lastRet.via = "idle") => ~lastRet.err

\* C3: with IdleTimeout > 0, a Get (blocked or not) never returns a connection
\* that has been in the idle list for IdleTimeout or longer.
C3_NeverReturnsExpired ==
  (extraCloses = 0 /\ IdleTimeout > 0 /\ lastRet.via = "idle") =>
    lastRet.t + IdleTimeout > lastRet.at

C5_BlockingAndWake ==
  (MaxActive = 1 /\ extraCloses = 0) =>
    ((lastRet.via # "none" /\ lastRet.sole # 0) =>
       /\ lastRet.via = "idle"
       /\ lastRet.blocked
       /\ lastRet.client = lastRet.sole
       /\ lastRet.client = lastPut
       /\ NumOutstanding = 1)

\* C5 witness: such a Get has just returned the released connection.
C5_Witness ==
  MaxActive = 1 /\ extraCloses = 0 /\ lastRet.sole # 0 /\ lastRet.via = "idle"

\* C6: while no handle is closed twice, every dialed connection is in exactly one
\* of: held by an outstanding handle, in the idle list, closed; none is held by
\* two handles and none is twice in the idle list.
C6_ExclusiveOwnership ==
  extraCloses = 0 =>
    /\ \A k \in 1..nClients :
         /\ (k \in Held) \/ (k \in IdleClients) \/ (k \in closedClients)
         /\ ~(k \in Held /\ k \in IdleClients)
         /\ ~(k \in Held /\ k \in closedClients)
         /\ ~(k \in IdleClients /\ k \in closedClients)
         /\ Copies(k) <= 1
    /\ \A i, j \in 1..Len(idle) : idle[i].client = idle[j].client => i = j

\* C7 as claimed: a Get that immediately follows a Close, the released connection
\* not having expired, returns that connection from the idle list.
C7_ReuseAsClaimed ==
  (lastRet.via # "none" /\ lastRet.follows # 0) =>
    (lastRet.via = "idle" /\ lastRet.client = lastRet.follows)

\* C7 amended: a Get that immediately follows a Close, the released connection
\* not having expired and its Errored flag not being set, returns that connection
\* from the idle list; and every connection Get takes from the idle list is the
\* most recently released one in it: it is the last one put if that one is still
\* idle, and none left in the list was idled later.
C7_Reuse ==
  /\ (lastRet.via # "none" /\ lastRet.follows # 0 /\ lastRet.follows \notin errored) =>
       (lastRet.via = "idle" /\ lastRet.client = lastRet.follows)
  /\ lastRet.via = "idle" =>
       /\ \A i \in 1..Len(idle) : idle[i].t <= lastRet.t
       /\ extraCloses = 0 => (lastPut \notin IdleClients)
  /\ (extraCloses = 0 /\ lastPut \in IdleClients) => idle[1].client = lastPut

\* C7 witness: a Get that followed a Close has returned the connection just
\* released while an older connection stays in the idle list.
C7_Witness ==
  lastRet.via = "idle" /\ lastRet.follows = lastRet.client /\ Len(idle) >= 1

\* C8: while no handle is closed twice, Active is never negative, and whenever
\* the lock is free Active is the number of outstanding handles plus the number
\* of dials counted and not yet returned or rolled back.
C8_Accounting ==
  extraCloses = 0 =>
    /\ Active >= 0
    /\ mutex = 0 => Active = NumOutstanding + NumDialing

\* C8 witness: the lock is free, a handle is outstanding and a dial is in flight.
C8_Witness ==
  extraCloses = 0 /\ mutex = 0 /\ NumOutstanding >= 1 /\ NumDialing >= 1

\* C9: with MaxActive = 0 no Get is ever in the wait (parked or woken from it),
\* cond is never created, and every Get that returns did so from the idle list
\* or from its own dial without having waited.
C9_Unlimited ==
  MaxActive = 0 =>
    /\ \A c \in Callers : pc[c] \notin {"parked", "signalled"} /\ ~blocked[c]
    /\ ~cond
    /\ lastRet.via # "none" => ~lastRet.blocked

\* C9 witness: with MaxActive = 0, two handles are outstanding and a third Get is
\* dialing.
C9_Witness ==
  MaxActive = 0 /\ NumOutstanding >= 2 /\ NumDialing >= 1

\* C10: a second Close of a handle is carried out like the first: it prepends
\* the connection to the idle list again and decrements Active again; from then
\* on, whenever the lock is free, Active is lower than the number of outstanding
\* handles plus dials in flight, by the number of such extra Closes.
C10_DoubleClose ==
  /\ [][\A c \in Callers :
          (pc[c] = "closing" /\ closing[c].closes >= 1 /\ pc'[c] # "closing") =>
            /\ idle' = <<[client |-> closing[c].client, t |-> now]>> \o idle
            /\ Active' = Active - 1
            /\ extraCloses' = extraCloses + 1
       ]_vars
  /\ [](mutex = 0 => Active = NumOutstanding + NumDialing - extraCloses)

\* C10 witness: after a double Close two outstanding handles wrap the same
\* connection, and Active counts fewer than the handles outstanding.
C10_Witness ==
  /\ extraCloses >= 1 /\ mutex = 0
  /\ \E k \in 1..nClients : Copies(k) >= 2
  /\ Active < NumOutstanding

\* the Clients of the entries of an idle list
ClientsOf(l) == {l[i].client : i \in 1..Len(l)}

\* C11: with IdleTimeout > 0, every connection a purge pass removes from the idle
\* list, for having expired or for its Errored flag, is closed in that pass.
C11_PurgeClosesDropped ==
  (extraCloses = 0 /\ IdleTimeout > 0 /\ lastPurge.ran) =>
    (ClientsOf(lastPurge.before) \ ClientsOf(lastPurge.after)) \subseteq lastPurge.closed

\* C12: when IdleTimeout <= 0 the purge pass of Get leaves the idle list as it
\* was, entries and order, and closes no connection, whatever the age and the
\* Errored flag of the entries.
C12_PurgeNoOp ==
  (IdleTimeout <= 0 /\ lastPurge.ran) =>
    /\ lastPurge.after = lastPurge.before
    /\ idle = lastPurge.before
    /\ lastPurge.closed = {}

\* C12 witness: with IdleTimeout < 0, a purge pass has just run over an idle list
\* holding an errored connection and one idled before the current tick.
C12_Witness ==
  /\ IdleTimeout < 0 /\ lastPurge.ran
  /\ \E i \in 1..Len(idle) : idle[i].client \in errored
  /\ \E i \in 1..Len(idle) : idle[i].t < now

\* the step in which goroutine c completes a Close
CloseStep(c) == pc[c] = "closing" /\ pc'[c] # "closing"

\* C13, its first and last parts: a Close of a handle whose connection has
\* Errored set prepends the connection to the idle list, decrements Active and
\* makes one parked goroutine runnable; no Close closes a connection or takes
\* one off the idle list.
C13_CloseKeepsErrored ==
  [][\A c \in Callers :
       CloseStep(c) =>
         /\ closedClients' = closedClients
         /\ Len(idle') = Len(idle) + 1
         /\ closing[c].client \in errored =>
              /\ idle' = <<[client |-> closing[c].client, t |-> now]>> \o idle
              /\ Active' = Active - 1
              /\ Parked # {} => \E w \in Parked : pc'[w] = "signalled"
    ]_vars

\* C13: as above, and an errored connection in the idle list stays there until
\* the purge pass of a Get called after its Close: it leaves the list only in a
\* purge pass, or in the critical section of a Get that began with one (a Get
\* that has not been in the wait).
C13_DeferredEviction ==
  /\ C13_CloseKeepsErrored
  /\ [][extraCloses = 0 =>
          \A k \in errored \cap IdleClients :
            k \notin IdleClients' =>
              \E c \in Callers :
                \/ pc[c] = "purge" /\ pc'[c] = "loop"
                \/ pc[c] = "loop" /\ ~blocked[c] /\ pc'[c] = "idle"
       ]_vars

\* the goroutines whose dial() call is in progress
InDial == {c \in Callers : pc[c] = "dial"}

\* the places of Get and Close that read or write Active and the idle list
InCritical(c) == pc[c] \in {"purge", "loop", "rollback", "closing"}

\* C14: the lock is never held by a goroutine whose dial is in progress; the
\* goroutine entered the dial by incrementing Active and releasing the lock in
\* one critical section; a goroutine is at a place that reads or writes Active
\* or the idle list exactly when it holds the lock, and every step that changes
\* Active or the idle list is taken by the lock's holder.
C14_DialOutsideLock ==
  /\ [](\A c \in Callers : c \in InDial => mutex # c)
  /\ [](\A c \in Callers : InCritical(c) <=> mutex = c)
  /\ [][/\ \A c \in Callers :
             (c \in InDial' /\ c \notin InDial) =>
               mutex = c /\ mutex' = 0 /\ Active' = Active + 1
        /\ (Active' # Active \/ idle' # idle) =>
             mutex # 0 /\ InCritical(mutex) /\ pc'[mutex] # pc[mutex]
       ]_vars

\* C14 witness: while one goroutine's dial is in progress, the Get of another
\* returns a connection that a Close put in the idle list.
C14_Witness ==
  \E c \in InDial :
    /\ lastRet.via = "idle"
    /\ lastRet.caller # c
    /\ mutex = 0

\* C16: a Get calls dial() at most once; it calls it holding the lock's critical
\* section in which it saw the idle list empty and MaxActive = 0 or
\* Active < MaxActive; after dial() fails the Get does nothing but take the lock,
\* release the slot and return the error: it neither dials again, nor waits, nor
\* takes or changes the idle list.
C16_DialDiscipline ==
  /\ [](\A c \in Callers : dials[c] <= 1)
  /\ [][\A c \in Callers :
          /\ dials'[c] > dials[c] =>
               /\ pc[c] = "loop" /\ mutex = c
               /\ idle = <<>>
               /\ MaxActive = 0 \/ Active < MaxActive
          /\ (pc[c] = "dialerr" /\ pc'[c] # "dialerr") =>
               pc'[c] = "rollback" /\ idle' = idle /\ Active' = Active
          /\ (pc[c] = "rollback" /\ pc'[c] # "rollback") =>
               /\ pc'[c] = "idle"
               /\ lastRet'.via = "err" /\ lastRet'.caller = c
               /\ idle' = idle /\ handles' = handles /\ Active' = Active - 1
       ]_vars

\* C16 witness: a Get returns the error of its failed dial although a connection
\* has come into the idle list meanwhile.
C16_Witness ==
  /\ lastRet.via = "err"
  /\ idle # <<>>

\* C17: with MaxActive > 0 and no handle closed twice, Active plus the length
\* of the idle list never exceeds MaxActive; so the idle branch of Get, which
\* does not test MaxActive, never takes Active above MaxActive.
C17_PooledBound ==
  /\ [](MaxActive > 0 /\ extraCloses = 0 => Active + Len(idle) <= MaxActive)
  /\ [][(MaxActive > 0 /\ extraCloses = 0 /\ idle # <<>> /\ idle' = Tail(idle)
           /\ Active' = Active + 1)
          => Active' <= MaxActive]_vars

\* C17 witness: the idle branch has just returned a connection, bringing Active
\* to MaxActive while the idle list still holds another.
C17_Witness ==
  /\ MaxActive > 0 /\ extraCloses = 0
  /\ lastRet.via = "idle"
  /\ Active + Len(idle) = MaxActive
  /\ idle # <<>>

\* the goroutines that Signal has made runnable and that have not resumed yet
Signalled == {c \in Callers : pc[c] = "signalled"}

\* C18: with MaxActive > 0 and no handle closed twice, whenever the lock is
\* free, some goroutine is parked in the wait and no signalled goroutine has
\* still to resume, the idle list is empty and Active = MaxActive: nobody stays
\* parked beside an idle connection or a free slot without a wake-up on its way.
C18_NoLostWakeup ==
  (/\ MaxActive > 0 /\ extraCloses = 0
   /\ mutex = 0
   /\ Parked # {}
   /\ Signalled = {})
    => idle = <<>> /\ Active = MaxActive

\* C18 witness: a goroutine that was parked has been woken and its Get has
\* returned, while another goroutine is still parked and nobody is signalled.
C18_Witness ==
  /\ MaxActive > 0 /\ extraCloses = 0
  /\ mutex = 0
  /\ Parked # {}
  /\ Signalled = {}
  /\ lastRet.via \in {"idle", "dial"}
  /\ lastRet.blocked

\* C15: a wake-up transfers nothing. The woken goroutine only takes the lock
\* and goes round the loop again, the pool unchanged; there it takes the front
\* idle connection if there is one, else dials if MaxActive = 0 or
\* Active < MaxActive, else parks again. So a goroutine that took the freed slot
\* first sends the woken one back into the wait.
C15_NoOwnershipTransfer ==
  [][\A c \in Callers :
       /\ (pc[c] = "signalled" /\ pc'[c] # "signalled") =>
            /\ pc'[c] = "loop" /\ mutex' = c
            /\ idle' = idle /\ Active' = Active /\ handles' = handles
       /\ (pc[c] = "loop" /\ blocked[c] /\ pc'[c] # "loop") =>
            IF idle # <<>>
            THEN pc'[c] = "idle" /\ lastRet'.via = "idle" /\ lastRet'.caller = c
            ELSE IF MaxActive = 0 \/ Active < MaxActive
                 THEN pc'[c] = "dial"
                 ELSE pc'[c] = "parked"
    ]_vars

\* C15 witness: with MaxActive > 0 a goroutine woken from the wait holds the
\* lock and finds the idle list empty and Active = MaxActive: the slot whose
\* release woke it has gone to another Get, and it is about to park again.
C15_Witness ==
  \E c \in Callers :
    /\ MaxActive > 0 /\ extraCloses = 0
    /\ pc[c] = "loop" /\ blocked[c]
    /\ idle = <<>>
    /\ Active = MaxActive

\* C15, the starvation: every Get that parks returns in the end. Under FairSpec,
\* where every goroutine inside a call is scheduled strongly fairly, every dial
\* returns and every handle is closed, this does NOT hold: TLC finds a behaviour
\* in which a parked goroutine is woken and parks again for ever.
C15_BlockedGetReturns ==
  \A c \in Callers : (pc[c] = "parked") ~> (pc[c] = "idle")

\* C19: in a finite workload (NumGets calls of Get, each followed on success by
\* one Close) on a pool with MaxActive > 0, with every dial returning and the
\* goroutines scheduled weakly fairly, every Get returns, and from some point
\* on Active = 0 and no goroutine is parked in the wait.
C19_Progress ==
  /\ \A c \in Callers : InGet(c) ~> ~InGet(c)
  /\ <>[](Active = 0 /\ Parked = {})

\* C19 witness: the workload is over, all its Get calls made and returned and
\* every handle closed, after a Get had to wait and a dial had failed.
C19_Witness ==
  /\ toGet = 0
  /\ \A c \in Callers : pc[c] = "idle"
  /\ Outstanding = {}
  /\ Active = 0
  /\ cond
  /\ BagCardinality(handles) < NumGets

====
